---- MODULE Spec2Model ----
(***************************************************************************)
(* Model of src/sw.js, the image-caching service worker.                   *)
(*                                                                         *)
(* Strings are sequences of one-character strings, so that startsWith,     *)
(* includes, toLowerCase and URL parsing are computed, not assumed.        *)
(* Every action is one turn of the worker's event loop: an event handed    *)
(* to a listener, or the completion of one asynchronous platform operation *)
(* (caches.match, fetch, caches.open, cache.put, caches.delete,            *)
(* cache.keys, caches.keys, clients.claim) together with the promise       *)
(* callback the code attached to it. Callbacks run in the order in which   *)
(* their operations complete.                                              *)
(***************************************************************************)
EXTENDS Integers, Sequences, FiniteSets, Bags, TLC

(* ------------------------------------------------------------------ *)
(* Bounds of the model                                                 *)
(* ------------------------------------------------------------------ *)
(* fetch and message events delivered to the worker in one run *)
MaxEvents == 2

(* ------------------------------------------------------------------ *)
(* String primitives of the language runtime                           *)
(* ------------------------------------------------------------------ *)
StartsWith(s, p) == Len(s) >= Len(p) /\ SubSeq(s, 1, Len(p)) = p

Includes(s, p) == \E i \in 0..(Len(s) - Len(p)) : SubSeq(s, i + 1, i + Len(p)) = p

UpperChars == <<"A","B","C","D","E","F","G","H","I","J","K","L","M",
                "N","O","P","Q","R","S","T","U","V","W","X","Y","Z">>

LowerChars == <<"a","b","c","d","e","f","g","h","i","j","k","l","m",
                "n","o","p","q","r","s","t","u","v","w","x","y","z">>

LowerChar(c) ==
    IF \E i \in 1..Len(UpperChars) : UpperChars[i] = c
    THEN LowerChars[CHOOSE i \in 1..Len(UpperChars) : UpperChars[i] = c]
    ELSE c

ToLowerCase(s) == [i \in 1..Len(s) |-> LowerChar(s[i])]

(* Index of the first position >= from whose character is in cs,       *)
(* or Len(s) + 1 when there is none.                                   *)
FirstOf(s, cs, from) ==
    IF \E i \in from..Len(s) : s[i] \in cs
    THEN CHOOSE i \in from..Len(s) : s[i] \in cs /\ \A j \in from..(i - 1) : s[j] \notin cs
    ELSE Len(s) + 1

(* new URL(u) for an absolute, already serialised http(s) URL:         *)
(* scheme "://" authority path ["?" query] ["#" fragment].             *)
ParseURL(u) ==
    LET colon     == FirstOf(u, {":"}, 1)
        authStart == colon + 3
        authEnd   == FirstOf(u, {"/", "?", "#"}, authStart)
        authority == SubSeq(u, authStart, authEnd - 1)
        hostEnd   == FirstOf(authority, {":"}, 1)
        pathEnd   == FirstOf(u, {"?", "#"}, authEnd)
        path      == SubSeq(u, authEnd, pathEnd - 1)
    IN  [origin   |-> SubSeq(u, 1, authEnd - 1),
         hostname |-> SubSeq(authority, 1, hostEnd - 1),
         pathname |-> IF path = <<>> THEN <<"/">> ELSE path]

(* ------------------------------------------------------------------ *)
(* Configuration of the worker                                         *)
(* ------------------------------------------------------------------ *)
CACHE_NAME == <<"y","a","k","i","-","i","m","a","g","e","-","c","a","c","h","e","-","v","1">>

CachePrefix == <<"y","a","k","i","-","i","m","a","g","e","-","c","a","c","h","e","-">>

ALLOWED_IMAGE_DOMAINS == {
    <<"g","i","t","h","u","b",".","c","o","m">>,
    <<"r","a","w",".","g","i","t","h","u","b","u","s","e","r","c","o","n","t","e","n","t",".","c","o","m">>,
    <<"i","m","a","g","e","s",".","u","n","s","p","l","a","s","h",".","c","o","m">>,
    <<"c","d","n",".","p","i","x","a","b","a","y",".","c","o","m">>,
    <<"i",".","i","m","g","u","r",".","c","o","m">>,
    <<"r","e","s",".","c","l","o","u","d","i","n","a","r","y",".","c","o","m">>,
    <<"s","t","o","r","a","g","e",".","g","o","o","g","l","e","a","p","i","s",".","c","o","m">>,
    <<"f","i","r","e","b","a","s","e","s","t","o","r","a","g","e",".","g","o","o","g","l","e","a","p","i","s",".","c","o","m">>,
    <<"l","h","3",".","g","o","o","g","l","e","u","s","e","r","c","o","n","t","e","n","t",".","c","o","m">> }

imageExtensions == {
    <<".","j","p","g">>,
    <<".","j","p","e","g">>,
    <<".","p","n","g">>,
    <<".","g","i","f">>,
    <<".","w","e","b","p">>,
    <<".","s","v","g">>,
    <<".","i","c","o">>,
    <<".","b","m","p">> }

(* self.location.origin of the deployment that is modelled *)
SelfOrigin == <<"h","t","t","p","s",":","/","/","s","h","o","p",".","e","x","a","m","p","l","e">>

(* ------------------------------------------------------------------ *)
(* Classifier                                                          *)
(* ------------------------------------------------------------------ *)
(* mutant of isImageRequest: the path is not lowercased *)
isImageRequest_CaseSensitive(request) ==
    LET url == ParseURL(request.url)
    IN  IF request.destination = "image"
        THEN TRUE
        ELSE \E ext \in imageExtensions : Includes(url.pathname, ext)

isImageRequest(request) ==
    LET url == ParseURL(request.url)
    IN  IF request.destination = "image"
        THEN TRUE
        ELSE LET pathname == ToLowerCase(url.pathname)
             IN  \E ext \in imageExtensions : Includes(pathname, ext)

isAllowedDomain(url) ==
    LET urlObj == ParseURL(url)
    IN  IF urlObj.origin = SelfOrigin
        THEN TRUE
        ELSE \E domain \in ALLOWED_IMAGE_DOMAINS : Includes(urlObj.hostname, domain)

(* the condition of the if at line 107 *)
MayCache(request) == isAllowedDomain(request.url) \/ StartsWith(request.url, SelfOrigin)

(* ------------------------------------------------------------------ *)
(* Inputs: the requests, network answers and control messages that     *)
(* the platform can deliver                                            *)
(* ------------------------------------------------------------------ *)
UrlOwnImage == <<"h","t","t","p","s",":","/","/","s","h","o","p",".","e","x","a","m","p","l","e","/","i","m","g","/","a",".","p","n","g">>

UrlAllowedHost == <<"h","t","t","p","s",":","/","/","i",".","i","m","g","u","r",".","c","o","m","/","p","i","c",".","J","P","G","/","r","a","w">>

UrlForeignPhoto == <<"h","t","t","p","s",":","/","/","e","v","i","l",".","n","e","t","/","p","h","o","t","o">>

UrlLookalike == <<"h","t","t","p","s",":","/","/","s","h","o","p",".","e","x","a","m","p","l","e",".","e","v","i","l",".","n","e","t","/","c",".","p","n","g">>

UrlScript == <<"h","t","t","p","s",":","/","/","s","h","o","p",".","e","x","a","m","p","l","e","/","a","p","p",".","j","s">>

UrlQueryOnly == <<"h","t","t","p","s",":","/","/","s","h","o","p",".","e","x","a","m","p","l","e","/","a","p","i","?","f","=","a",".","p","n","g">>

Requests == {
    [method |-> "GET",  url |-> UrlOwnImage,     destination |-> "image"],
    [method |-> "GET",  url |-> UrlAllowedHost,  destination |-> ""],
    [method |-> "GET",  url |-> UrlForeignPhoto, destination |-> "image"],
    [method |-> "GET",  url |-> UrlLookalike,    destination |-> ""],
    [method |-> "GET",  url |-> UrlScript,       destination |-> "script"],
    [method |-> "GET",  url |-> UrlQueryOnly,    destination |-> ""],
    [method |-> "POST", url |-> UrlOwnImage,     destination |-> "image"] }

Bodies == {"b1", "b2"}

ErrorStatuses == {302, 404, 500}

(* what fetch(request) can resolve with *)
NetworkResponses ==
    [status : {200}, body : Bodies] \cup [status : ErrorStatuses, body : {"e"}]

NoResponse == [status |-> -1, body |-> "none"]

(* mutant of SyntheticNotFound: the placeholder carries another status *)
SyntheticServerError == [status |-> 500, body |-> ""]

(* new Response('', { status: 404 }) *)
SyntheticNotFound == [status |-> 404, body |-> ""]

Messages == {
    [hasData |-> TRUE,  action |-> "clearImageCache"],
    [hasData |-> TRUE,  action |-> "getCacheStats"],
    [hasData |-> TRUE,  action |-> "ping"],
    [hasData |-> FALSE, action |-> ""] }

(* names of stores that may exist when the worker is installed *)
OldGeneration == <<"y","a","k","i","-","i","m","a","g","e","-","c","a","c","h","e","-","v","0">>

PrefixOnlyName == <<"y","a","k","i","-","i","m","a","g","e","-","c","a","c","h","e","-">>

EmbeddedPrefixName == <<"o","l","d","-","y","a","k","i","-","i","m","a","g","e","-","c","a","c","h","e","-","v","1">>

UnrelatedName == <<"a","p","p","-","s","t","a","t","i","c">>

(* ------------------------------------------------------------------ *)
(* State                                                               *)
(* ------------------------------------------------------------------ *)
VARIABLES
    phase,        \* lifecycle of the worker
    skipWaiting,  \* self.skipWaiting() has been called
    claimed,      \* self.clients.claim() has been called
    toDelete,     \* names whose caches.delete(name) of the activation is pending
    pruned,       \* names the activation has passed to caches.delete
    caches,       \* CacheStorage: <<[name, cid]>> in creation order
    data,         \* request/response list of every Cache object, by cid
    tasks,        \* bag of intercepted requests and detached writes in flight
    out,          \* the latest settlement of a promise given to respondWith
    msgs,         \* bag of clearImageCache / getCacheStats handlers in flight
    replies,      \* messages posted to event.source, in order
    events,       \* fetch and message events delivered so far
    declined,     \* fetch events the listener returned from without respondWith
    ignored,      \* message events that matched neither if of the listener
    received,     \* clearImageCache and getCacheStats messages received, by action
    written,      \* per URL, the response of the latest completed cache.put
    cleared,      \* a caches.delete(CACHE_NAME) has completed
    unhandled,    \* promise rejections no handler was attached to
    fills         \* bag of URLs: fetch(request) calls whose response went on to be cached

vars == <<phase, skipWaiting, claimed, toDelete, pruned, caches, data, tasks, out,
          msgs, replies, events, declined, ignored, received, written, cleared, unhandled,
          fills>>

lifecycleVars == <<phase, skipWaiting, claimed, toDelete, pruned>>

storageVars == <<caches, data>>

(* ------------------------------------------------------------------ *)
(* The platform's CacheStorage and Cache                                *)
(* ------------------------------------------------------------------ *)
Names(cs) == {cs[i].name : i \in 1..Len(cs)}

Has(cs, name) == name \in Names(cs)

CidOf(cs, name) == cs[CHOOSE i \in 1..Len(cs) : cs[i].name = name].cid

(* caches.delete(name) *)
Without(cs, name) == SelectSeq(cs, LAMBDA c : c.name # name)

(* cache.match(request): the first response stored under the URL *)
CacheMatch(list, url) ==
    IF \E i \in 1..Len(list) : list[i].url = url
    THEN list[CHOOSE i \in 1..Len(list) :
                 list[i].url = url /\ \A j \in 1..(i - 1) : list[j].url # url].response
    ELSE NoResponse

(* mutant of CachesMatch: the lookup never finds the stored entry *)
CachesMatch_NoHit(cs, d, url) == NoResponse

(* caches.match(request): every Cache of the storage, in creation order *)
CachesMatch(cs, d, url) ==
    IF \E i \in 1..Len(cs) : CacheMatch(d[cs[i].cid], url) # NoResponse
    THEN CacheMatch(d[cs[CHOOSE i \in 1..Len(cs) :
                            /\ CacheMatch(d[cs[i].cid], url) # NoResponse
                            /\ \A j \in 1..(i - 1) : CacheMatch(d[cs[j].cid], url) = NoResponse].cid],
                    url)
    ELSE NoResponse

(* mutant of CachePut: the entry stored under the URL is not replaced *)
CachePut_AppendOnly(list, url, response) ==
    Append(list, [url |-> url, response |-> response])

(* cache.put(request, response): replaces what is stored under the URL *)
CachePut(list, url, response) ==
    Append(SelectSeq(list, LAMBDA e : e.url # url), [url |-> url, response |-> response])

(* caches.open(name): the storage and data after it, creating the Cache if absent *)
OpenedCaches(cs, d, name) ==
    IF Has(cs, name) THEN cs ELSE Append(cs, [name |-> name, cid |-> Len(d) + 1])

OpenedData(cs, d, name) == IF Has(cs, name) THEN d ELSE Append(d, <<>>)

(* A deleted Cache lives on for the handles that were opened on it; once *)
(* nothing refers to it, its list is gone.                               *)
Collect(cs, ts, ms, d) ==
    LET live == {cs[i].cid : i \in 1..Len(cs)}
                \cup {t.handle : t \in BagToSet(ts)} \cup {m.handle : m \in BagToSet(ms)}
    IN  [c \in 1..Len(d) |-> IF c \in live THEN d[c] ELSE <<>>]

(* mutant of Clone: the copy does not carry the body *)
Clone_Consumed(response) == [status |-> response.status, body |-> ""]

(* response.clone() *)
Clone(response) == [status |-> response.status, body |-> response.body]

(* the entries of the current generation, <<>> when it does not exist *)
CurrentEntries == IF Has(caches, CACHE_NAME) THEN data[CidOf(caches, CACHE_NAME)] ELSE <<>>

Replace(bag, old, new) == (bag (-) SetToBag({old})) (+) SetToBag({new})

Remove(bag, old) == bag (-) SetToBag({old})

(* ------------------------------------------------------------------ *)
(* Initial states: the storage the worker may find when it is          *)
(* installed. Earlier versions of this worker wrote the generations,   *)
(* the page wrote the other stores.                                    *)
(* ------------------------------------------------------------------ *)
Entry(url, body) == [url |-> url, response |-> [status |-> 200, body |-> body]]

InitialStorages == {
    [caches |-> <<>>, data |-> <<>>],
    [caches |-> << [name |-> OldGeneration, cid |-> 1],
                   [name |-> CACHE_NAME, cid |-> 2],
                   [name |-> PrefixOnlyName, cid |-> 3],
                   [name |-> UnrelatedName, cid |-> 4] >>,
     data   |-> << <<Entry(UrlOwnImage, "b1")>>,
                   <<Entry(UrlAllowedHost, "b1")>>,
                   <<>>,
                   <<Entry(UrlScript, "b1")>> >>],
    [caches |-> << [name |-> UnrelatedName, cid |-> 1],
                   [name |-> EmbeddedPrefixName, cid |-> 2] >>,
     data   |-> << <<Entry(UrlScript, "b1"), Entry(UrlOwnImage, "b2")>>,
                   <<Entry(UrlForeignPhoto, "b1")>> >>],
    [caches |-> << [name |-> UnrelatedName, cid |-> 1],
                   [name |-> CACHE_NAME, cid |-> 2] >>,
     data   |-> << <<Entry(UrlOwnImage, "b2")>>,
                   <<Entry(UrlOwnImage, "b1")>> >>] }

NoOut ==
    [req |-> [method |-> "", url |-> <<>>, destination |-> ""], outcome |-> "none",
     settled |-> "none", response |-> NoResponse, netCalls |-> 0, stored |-> NoResponse,
     network |-> NoResponse, netFailed |-> FALSE]

Init ==
    /\ phase = "parsed"
    /\ skipWaiting = FALSE
    /\ claimed = FALSE
    /\ toDelete = {}
    /\ pruned = {}
    /\ \E s \in InitialStorages : caches = s.caches /\ data = s.data
    /\ tasks = EmptyBag
    /\ out = NoOut
    /\ msgs = EmptyBag
    /\ replies = <<>>
    /\ events = 0
    /\ declined = 0
    /\ ignored = 0
    /\ received = [a \in {"clearImageCache", "getCacheStats"} |-> 0]
    /\ written = {}
    /\ cleared = FALSE
    /\ unhandled = 0
    /\ fills = EmptyBag

(* ------------------------------------------------------------------ *)
(* install and activate listeners                                      *)
(* ------------------------------------------------------------------ *)
Install ==
    /\ phase = "parsed"
    /\ phase' = "installed"
    /\ skipWaiting' = TRUE
    /\ UNCHANGED <<claimed, toDelete, pruned, storageVars, tasks, out, msgs, replies,
                   events, declined, ignored, received, written, cleared, unhandled, fills>>

(* the activate listener runs: caches.keys() is issued inside waitUntil *)
Activate ==
    /\ phase = "installed"
    /\ phase' = "keys"
    /\ UNCHANGED <<skipWaiting, claimed, toDelete, pruned, storageVars, tasks, out, msgs,
                   replies, events, declined, ignored, received, written, cleared, unhandled, fills>>

(* mutant of IsOldGeneration: the current name is taken for the prefix *)
IsOldGeneration_CurrentPrefix(name) == StartsWith(name, CACHE_NAME) /\ name # CACHE_NAME

(* mutant of IsOldGeneration: the current generation is not spared *)
IsOldGeneration_AnyPrefix(name) == StartsWith(name, CachePrefix)

(* the filter of the activate listener *)
IsOldGeneration(name) == StartsWith(name, CachePrefix) /\ name # CACHE_NAME

(* caches.keys() resolves: filter, then one caches.delete per name *)
ActivateKeys ==
    /\ phase = "keys"
    /\ LET old == {n \in Names(caches) : IsOldGeneration(n)}
       IN  /\ toDelete' = old
           /\ pruned' = old
    /\ phase' = "pruning"
    /\ UNCHANGED <<skipWaiting, claimed, storageVars, tasks, out, msgs, replies,
                   events, declined, ignored, received, written, cleared, unhandled, fills>>

(* one caches.delete(name) of the activation completes *)
ActivateDelete(name) ==
    /\ phase = "pruning"
    /\ name \in toDelete
    /\ caches' = Without(caches, name)
    /\ data' = Collect(caches', tasks, msgs, data)
    /\ toDelete' = toDelete \ {name}
    /\ UNCHANGED <<phase, skipWaiting, claimed, pruned, tasks, out, msgs, replies,
                   events, declined, ignored, received, written, cleared, unhandled, fills>>

(* mutant of ActivateClaim: clients.claim() is not chained after Promise.all *)
ActivateClaim_Early ==
    /\ phase = "pruning"
    /\ claimed' = TRUE
    /\ phase' = "claiming"
    /\ UNCHANGED <<skipWaiting, toDelete, pruned, storageVars, tasks, out, msgs, replies,
                   events, declined, ignored, received, written, cleared, unhandled, fills>>

(* Promise.all resolves: self.clients.claim() is called *)
ActivateClaim ==
    /\ phase = "pruning"
    /\ toDelete = {}
    /\ claimed' = TRUE
    /\ phase' = "claiming"
    /\ UNCHANGED <<skipWaiting, toDelete, pruned, storageVars, tasks, out, msgs, replies,
                   events, declined, ignored, received, written, cleared, unhandled, fills>>

(* clients.claim() resolves: waitUntil is released, the worker is active *)
ActivateDone ==
    /\ phase = "claiming"
    /\ phase' = "activated"
    /\ UNCHANGED <<skipWaiting, claimed, toDelete, pruned, storageVars, tasks, out, msgs,
                   replies, events, declined, ignored, received, written, cleared, unhandled, fills>>

(* ------------------------------------------------------------------ *)
(* fetch listener                                                      *)
(* ------------------------------------------------------------------ *)
(* the two early returns before respondWith *)
Intercepts(request) ==
    IF request.method # "GET"
    THEN FALSE
    ELSE IF ~isImageRequest(request) THEN FALSE ELSE TRUE

NewTask(request) ==
    [req      |-> request,
     pc       |-> "match",      \* "match", "fetch", then "open", "put" of the detached write
     netCalls |-> 0,            \* calls of fetch(request)
     stored   |-> NoResponse,   \* the current generation's entry when the lookup completed
     response |-> NoResponse,   \* responseToCache
     handle   |-> 0]            \* the Cache object caches.open resolved with

(* a settlement of the promise given to respondWith, with what led to it: the  *)
(* request, the fetch calls made, the entry the current generation held at the *)
(* lookup, what the network resolved with and whether it rejected              *)
Settlement(t, outcome, settled, response, network, netFailed) ==
    [req |-> t.req, outcome |-> outcome, settled |-> settled, response |-> response,
     netCalls |-> t.netCalls, stored |-> t.stored, network |-> network,
     netFailed |-> netFailed]

(* a fetch event arrives; the worker only gets them once it is active *)
FetchEvent(request) ==
    /\ phase = "activated"
    /\ events < MaxEvents
    /\ events' = events + 1
    /\ IF Intercepts(request)
       THEN /\ tasks' = tasks (+) SetToBag({NewTask(request)})
            /\ UNCHANGED declined
       ELSE /\ declined' = declined + 1
            /\ UNCHANGED tasks
    /\ UNCHANGED <<lifecycleVars, storageVars, out, msgs, replies, ignored, received, written,
                   cleared, unhandled, fills>>

(* what the callback of caches.match returns on a hit *)
ServeCached(cachedResponse) == cachedResponse

(* caches.match(request) resolves and its callback runs *)
MatchDone(t) ==
    /\ t.pc = "match"
    /\ LET cachedResponse == CachesMatch(caches, data, t.req.url)
           seen == [t EXCEPT !.stored = CacheMatch(CurrentEntries, t.req.url)]
       IN  IF cachedResponse # NoResponse
           THEN /\ tasks' = Remove(tasks, t)
                /\ out' = Settlement(seen, "cached-hit", "fulfilled", ServeCached(cachedResponse),
                                      NoResponse, FALSE)
           ELSE /\ tasks' = Replace(tasks, t, [seen EXCEPT !.pc = "fetch", !.netCalls = @ + 1])
                /\ UNCHANGED out
    /\ UNCHANGED <<lifecycleVars, storageVars, msgs, replies, events, declined, ignored, received,
                   written, cleared, unhandled, fills>>

(* caches.match(request) rejects: no callback of the chain handles it *)
MatchFail(t) ==
    /\ t.pc = "match"
    /\ tasks' = Remove(tasks, t)
    /\ out' = Settlement(t, "lookup-error", "rejected", NoResponse, NoResponse, FALSE)
    /\ UNCHANGED <<lifecycleVars, storageVars, msgs, replies, events, declined, ignored, received,
                   written, cleared, unhandled, fills>>

(* mutant of IsInvalid: the status is not tested *)
IsInvalid_Absent(networkResponse) == networkResponse = NoResponse

(* the test of the first if in the callback of fetch *)
IsInvalid(networkResponse) == networkResponse = NoResponse \/ networkResponse.status # 200

(* fetch(request) resolves and its callback runs *)
FetchResolve(t, networkResponse) ==
    /\ t.pc = "fetch"
    /\ IF IsInvalid(networkResponse)
       THEN /\ tasks' = Remove(tasks, t)
            /\ out' = Settlement(t, "network-pass-through", "fulfilled", networkResponse,
                                 networkResponse, FALSE)
       ELSE IF MayCache(t.req)
            THEN /\ tasks' = Replace(tasks, t, [t EXCEPT !.pc = "open",
                                                         !.response = Clone(networkResponse)])
                 /\ out' = Settlement(t, "network-fill", "fulfilled", networkResponse,
                                      networkResponse, FALSE)
            ELSE /\ tasks' = Remove(tasks, t)
                 /\ out' = Settlement(t, "network-pass-through", "fulfilled", networkResponse,
                                 networkResponse, FALSE)
    /\ fills' = IF ~IsInvalid(networkResponse) /\ MayCache(t.req)
                THEN fills (+) SetToBag({t.req.url})
                ELSE fills
    /\ UNCHANGED <<lifecycleVars, storageVars, msgs, replies, events, declined, ignored, received,
                   written, cleared, unhandled>>

(* fetch(request) rejects: the catch callback runs *)
FetchReject(t) ==
    /\ t.pc = "fetch"
    /\ tasks' = Remove(tasks, t)
    /\ out' = Settlement(t, "fetch-error", "fulfilled", SyntheticNotFound, NoResponse, TRUE)
    /\ UNCHANGED <<lifecycleVars, storageVars, msgs, replies, events, declined, ignored, received,
                   written, cleared, unhandled, fills>>

(* caches.open(CACHE_NAME) of the detached write resolves: cache.put is called *)
WriteOpen(t) ==
    /\ t.pc = "open"
    /\ caches' = OpenedCaches(caches, data, CACHE_NAME)
    /\ data' = OpenedData(caches, data, CACHE_NAME)
    /\ tasks' = Replace(tasks, t, [t EXCEPT !.pc = "put", !.handle = CidOf(caches', CACHE_NAME)])
    /\ UNCHANGED <<lifecycleVars, out, msgs, replies, events, declined, ignored, received, written,
                   cleared, unhandled, fills>>

(* caches.open(CACHE_NAME) of the detached write rejects *)
WriteOpenFail(t) ==
    /\ t.pc = "open"
    /\ tasks' = Remove(tasks, t)
    /\ unhandled' = unhandled + 1
    /\ UNCHANGED <<lifecycleVars, storageVars, out, msgs, replies, events, declined,
                   ignored, received, written, cleared, fills>>

(* completed puts recorded for the URL *)
PutsOf(ws, url) ==
    IF \E w \in ws : w.url = url THEN (CHOOSE w \in ws : w.url = url).puts ELSE 0

(* cache.put(request, responseToCache) completes on the Cache it was called on *)
WritePut(t) ==
    /\ t.pc = "put"
    /\ tasks' = Remove(tasks, t)
    /\ data' = Collect(caches, tasks', msgs,
                       [data EXCEPT ![t.handle] = CachePut(@, t.req.url, t.response)])
    /\ written' = {w \in written : w.url # t.req.url}
                  \cup {[url |-> t.req.url, response |-> t.response,
                         puts |-> 1 + PutsOf(written, t.req.url)]}
    /\ UNCHANGED <<lifecycleVars, caches, out, msgs, replies, events, declined, ignored, received,
                   cleared, unhandled, fills>>

(* cache.put rejects *)
WritePutFail(t) ==
    /\ t.pc = "put"
    /\ tasks' = Remove(tasks, t)
    /\ data' = Collect(caches, tasks', msgs, data)
    /\ unhandled' = unhandled + 1
    /\ UNCHANGED <<lifecycleVars, caches, out, msgs, replies, events, declined, ignored, received,
                   written, cleared, fills>>

(* ------------------------------------------------------------------ *)
(* message listener                                                    *)
(* ------------------------------------------------------------------ *)
IsClear(m) == m.hasData /\ m.action = "clearImageCache"

(* mutant of IsStats: the second branch is taken for every other action *)
IsStats_AnyOther(m) == m.hasData /\ m.action # "clearImageCache"

IsStats(m) == m.hasData /\ m.action = "getCacheStats"

NewHandler(action, pc) ==
    [action |-> action,
     pc     |-> pc,       \* "delete" of clearImageCache; "open", "keys" of getCacheStats
     handle |-> 0,        \* the Cache object caches.open resolved with
     raced  |-> FALSE]    \* the current generation was deleted since the handle was opened

(* a message event arrives: caches.delete or caches.open is issued, or nothing *)
MessageEvent(m) ==
    /\ phase # "parsed"
    /\ events < MaxEvents
    /\ events' = events + 1
    /\ IF IsClear(m)
       THEN /\ msgs' = msgs (+) SetToBag({NewHandler(m.action, "delete")})
            /\ received' = [received EXCEPT ![m.action] = @ + 1]
            /\ UNCHANGED ignored
       ELSE IF IsStats(m)
            THEN /\ msgs' = msgs (+) SetToBag({NewHandler(m.action, "open")})
                 /\ received' = [received EXCEPT ![m.action] = @ + 1]
                 /\ UNCHANGED ignored
            ELSE /\ ignored' = ignored + 1
                 /\ UNCHANGED <<msgs, received>>
    /\ UNCHANGED <<lifecycleVars, storageVars, tasks, out, replies, declined, written,
                   cleared, unhandled, fills>>

(* mutant of ClearTarget: another generation is deleted *)
ClearTarget_Old == OldGeneration

(* the name the clearImageCache branch deletes *)
ClearTarget == CACHE_NAME

(* A posted message {action, count}, with what the storage was when it was    *)
(* posted: whether the current generation existed and how many entries it    *)
(* had before the step (existed, before), how many it has after it (after),  *)
(* and whether a caches.delete(CACHE_NAME) completed while the handler held  *)
(* its Cache object (raced).                                                  *)
Reply(action, count, existed, before, after, raced) ==
    [action |-> action, count |-> count, existed |-> existed, before |-> before,
     after |-> after, raced |-> raced]

(* a completed deletion of the current generation reaches the handlers that *)
(* have opened it and not yet read its keys                                  *)
Overtaken(h) == IF h.pc = "keys" THEN [h EXCEPT !.raced = TRUE] ELSE h

(* caches.delete(CACHE_NAME) resolves and its callback posts the reply *)
ClearDone(h) ==
    /\ h.pc = "delete"
    /\ msgs' = BagOfAll(Overtaken, Remove(msgs, h))
    /\ caches' = Without(caches, ClearTarget)
    /\ data' = Collect(caches', tasks, msgs', data)
    /\ replies' = Append(replies, Reply("cacheCleared", 0, Has(caches, CACHE_NAME),
                                        Len(CurrentEntries), Len(CurrentEntries'), FALSE))
    /\ cleared' = TRUE
    /\ UNCHANGED <<lifecycleVars, tasks, out, events, declined, ignored, received, written, unhandled, fills>>

(* mutant of StatsTarget: another generation is counted *)
StatsTarget_Old == OldGeneration

(* the name the getCacheStats branch opens *)
StatsTarget == CACHE_NAME

(* caches.open(CACHE_NAME) resolves: cache.keys() is called *)
StatsOpen(h) ==
    /\ h.pc = "open"
    /\ caches' = OpenedCaches(caches, data, StatsTarget)
    /\ data' = OpenedData(caches, data, StatsTarget)
    /\ msgs' = Replace(msgs, h, [h EXCEPT !.pc = "keys", !.handle = CidOf(caches', StatsTarget)])
    /\ UNCHANGED <<lifecycleVars, tasks, out, replies, events, declined, ignored, received, written,
                   cleared, unhandled, fills>>

(* keys.length *)
CountKeys(keys) == Len(keys)

(* cache.keys() resolves and its callback posts the reply *)
StatsKeys(h) ==
    /\ h.pc = "keys"
    /\ msgs' = Remove(msgs, h)
    /\ replies' = Append(replies,
                          Reply("cacheStats", CountKeys(data[h.handle]),
                                Has(caches, CACHE_NAME), Len(CurrentEntries),
                                Len(CurrentEntries), h.raced))
    /\ data' = Collect(caches, tasks, msgs', data)
    /\ UNCHANGED <<lifecycleVars, caches, tasks, out, events, declined, ignored, received, written,
                   cleared, unhandled, fills>>

(* ------------------------------------------------------------------ *)
(* Specification                                                       *)
(* ------------------------------------------------------------------ *)
Next ==
    \/ Install
    \/ Activate
    \/ ActivateKeys
    \/ \E name \in toDelete : ActivateDelete(name)
    \/ ActivateClaim
    \/ ActivateDone
    \/ \E request \in Requests : FetchEvent(request)
    \/ \E t \in BagToSet(tasks) : MatchDone(t)
    \/ \E t \in BagToSet(tasks) : MatchFail(t)
    \/ \E t \in BagToSet(tasks) : \E r \in NetworkResponses : FetchResolve(t, r)
    \/ \E t \in BagToSet(tasks) : FetchReject(t)
    \/ \E t \in BagToSet(tasks) : WriteOpen(t)
    \/ \E t \in BagToSet(tasks) : WriteOpenFail(t)
    \/ \E t \in BagToSet(tasks) : WritePut(t)
    \/ \E t \in BagToSet(tasks) : WritePutFail(t)
    \/ \E m \in Messages : MessageEvent(m)
    \/ \E h \in BagToSet(msgs) : ClearDone(h)
    \/ \E h \in BagToSet(msgs) : StatsOpen(h)
    \/ \E h \in BagToSet(msgs) : StatsKeys(h)

Spec == Init /\ [][Next]_vars

(* ------------------------------------------------------------------ *)
(* Properties                                                          *)
(* ------------------------------------------------------------------ *)
InFlight == BagToSet(tasks)

Pending(action) ==
    BagCardinality([h \in {x \in BagToSet(msgs) : x.action = action} |-> msgs[h]])

Posted(action) == Cardinality({i \in 1..Len(replies) : replies[i].action = action})

EntriesFor(url) == {i \in 1..Len(CurrentEntries) : CurrentEntries[i].url = url}

(* C1. Cache-first: a request whose key has an entry in the storage when   *)
(* its lookup completes is answered, at that step, with a response stored  *)
(* under the key, unmodified and without a call of fetch, and the step     *)
(* writes nothing; a request that goes on to the network or to a write had *)
(* no entry in the current generation at its lookup.                       *)
StoredResponses(url) ==
    UNION {{data[caches[i].cid][j].response :
               j \in {k \in 1..Len(data[caches[i].cid]) : data[caches[i].cid][k].url = url}} :
           i \in 1..Len(caches)}

ClaimTrusted(url) ==
    \/ ParseURL(url).origin = SelfOrigin
    \/ \E domain \in ALLOWED_IMAGE_DOMAINS : Includes(ParseURL(url).hostname, domain)

C2_TrustGating ==
    /\ \A i \in 1..Len(CurrentEntries) : ClaimTrusted(CurrentEntries[i].url)
    /\ (out.network # NoResponse /\ out.network.status = 200 /\ ~ClaimTrusted(out.req.url))
           => (out.settled = "fulfilled" /\ out.response = out.network)

(* C3. Non-200 responses are never cached: every entry of the current      *)
(* generation and every response handed to a detached write has status     *)
(* 200; a network response with another status is returned unmodified as   *)
(* a pass-through, also for a URL that may be cached.                      *)
C3_OnlyOkCached ==
    /\ \A i \in 1..Len(CurrentEntries) : CurrentEntries[i].response.status = 200
    /\ \A w \in written : w.response.status = 200
    /\ \A t \in InFlight : t.pc \in {"open", "put"} => t.response.status = 200
    /\ (out.network # NoResponse /\ out.network.status # 200)
           => /\ out.outcome = "network-pass-through"
              /\ out.settled = "fulfilled"
              /\ out.response = out.network

C3_Witness ==
    /\ out.network # NoResponse
    /\ out.network.status \in {302, 404, 500}
    /\ ClaimTrusted(out.req.url)
    /\ out.response = out.network

(* C4. Network failure: when fetch rejects after a cache miss the request  *)
(* is answered with a fulfilled response of status 404 and empty body, and *)
(* the step writes nothing and starts no write.                            *)
C4_NetworkFailure ==
    /\ [](out.netFailed =>
              /\ out.settled = "fulfilled"
              /\ out.response = [status |-> 404, body |-> ""]
              /\ out.stored = NoResponse)
    /\ [][\A t \in InFlight :
            FetchReject(t) => /\ UNCHANGED <<caches, data, written>>
                              /\ tasks' = Remove(tasks, t)
                              /\ out'.netFailed]_vars

C4_Witness == out.netFailed /\ out.response.status = 404 /\ out.outcome = "fetch-error"

(* C5. Every promise given to respondWith is fulfilled with a response:    *)
(* none is rejected and none is fulfilled with an absent value.            *)
C5_AlwaysResponse ==
    /\ out.settled # "rejected"
    /\ out.settled = "fulfilled" => out.response # NoResponse

(* C6. Interception guard: a fetch event is intercepted exactly when its   *)
(* method is GET and its destination is "image" or its lowercased path     *)
(* contains a recognised extension; for any other request the listener     *)
(* starts no lookup, no fetch and no write and leaves the storage alone.   *)
RecognisedExtensions == {
    <<".","j","p","g">>, <<".","j","p","e","g">>, <<".","p","n","g">>, <<".","g","i","f">>,
    <<".","w","e","b","p">>, <<".","s","v","g">>, <<".","i","c","o">>, <<".","b","m","p">> }

ClaimIntercepted(r) ==
    /\ r.method = "GET"
    /\ \/ r.destination = "image"
       \/ \E ext \in RecognisedExtensions :
              Includes(ToLowerCase(ParseURL(r.url).pathname), ext)

C6_InterceptionGuard ==
    [][\A r \in Requests :
         FetchEvent(r) =>
             IF ClaimIntercepted(r)
             THEN /\ tasks' = tasks (+) SetToBag({NewTask(r)})
                  /\ UNCHANGED <<caches, data, out, written, declined>>
             ELSE /\ UNCHANGED <<tasks, caches, data, out, written>>
                  /\ declined' = declined + 1]_vars

C6_Witness == declined > 0 /\ \E t \in InFlight : t.pc = "match"

(* C7. Generation pruning: the activation passes to caches.delete exactly  *)
(* the stores whose name starts with the prefix and is not the current     *)
(* name; when it is over none of them is left, and each of its deletions   *)
(* leaves every other store, with its entries, as it was.                  *)
ClaimSuperseded(name) == StartsWith(name, CachePrefix) /\ name # CACHE_NAME

C7_GenerationPruning ==
    /\ [](/\ \A n \in pruned : ClaimSuperseded(n)
          /\ phase \in {"claiming", "activated"} =>
                 \A n \in Names(caches) : ~ClaimSuperseded(n))
    /\ [][\A n \in toDelete :
            ActivateDelete(n) =>
                /\ ClaimSuperseded(n)
                /\ ~Has(caches', n)
                /\ \A i \in 1..Len(caches) :
                       caches[i].name # n =>
                           /\ \E j \in 1..Len(caches') : caches'[j] = caches[i]
                           /\ data'[caches[i].cid] = data[caches[i].cid]]_vars

C7_Witness ==
    /\ phase = "activated"
    /\ OldGeneration \in pruned
    /\ ~Has(caches, OldGeneration)
    /\ Len(CurrentEntries) > 0
    /\ Has(caches, UnrelatedName)

(* C8. clearImageCache: when the cacheCleared reply is posted the current  *)
(* generation has no entries, whether or not it existed before, and every  *)
(* clearImageCache message gets exactly one such reply: none while its     *)
(* deletion is pending, one once it has completed.                         *)
C8_ClearImageCache ==
    /\ \A i \in 1..Len(replies) :
           replies[i].action = "cacheCleared" => replies[i].after = 0
    /\ Posted("cacheCleared") + Pending("clearImageCache") = received["clearImageCache"]

C8_Witness ==
    /\ \E i \in 1..Len(replies) :
           replies[i].action = "cacheCleared" /\ replies[i].before > 0
    /\ \E i \in 1..Len(replies) :
           replies[i].action = "cacheCleared" /\ ~replies[i].existed

(* C9 as stated: every cacheStats reply carries the number of keys of the  *)
(* current generation at the time it is posted, and every getCacheStats    *)
(* message gets exactly one reply.                                         *)
C9_StatsCountsCurrent ==
    /\ \A i \in 1..Len(replies) :
           replies[i].action = "cacheStats" => replies[i].count = replies[i].after
    /\ Posted("cacheStats") + Pending("getCacheStats") = received["getCacheStats"]

(* C9 amended: every getCacheStats message gets exactly one cacheStats     *)
(* reply, and its count is the number of keys of the current generation at *)
(* the time it is posted unless a clearImageCache deletion completed       *)
(* between the handler's caches.open and its cache.keys.                   *)
C9_StatsCountsOpened ==
    /\ \A i \in 1..Len(replies) :
           (replies[i].action = "cacheStats" /\ ~replies[i].raced)
               => replies[i].count = replies[i].after
    /\ Posted("cacheStats") + Pending("getCacheStats") = received["getCacheStats"]

C9_Witness ==
    \E i \in 1..Len(replies) :
        /\ replies[i].action = "cacheStats"
        /\ ~replies[i].raced
        /\ replies[i].count > 0

(* C10. Cache-fill idempotence: as long as no clearImageCache deletion has *)
(* completed, for every URL for which a cache.put has completed the        *)
(* current generation holds exactly one entry, and it is the response of   *)
(* the put that completed last; in particular once all writes of           *)
(* concurrent identical requests have completed.                           *)
C10_FillIdempotent ==
    ~cleared =>
        \A w \in written :
            /\ Cardinality(EntriesFor(w.url)) = 1
            /\ \A i \in EntriesFor(w.url) : CurrentEntries[i].response = w.response

C10_Witness ==
    /\ ~cleared
    /\ tasks = EmptyBag
    /\ \E w \in written : w.puts >= 2 /\ w.response.body = "b2"

(* C11. Download once: as long as no clearImageCache message has been      *)
(* received, for every trusted URL at most one call of fetch has resolved  *)
(* with a status-200 response, every later request for it being served     *)
(* from the cache.                                                         *)
C11_DownloadOnce ==
    received["clearImageCache"] = 0 =>
        \A url \in BagToSet(fills) : ClaimTrusted(url) => CopiesIn(url, fills) <= 1

(* C12. Generation invariant: once the activation has completed, whatever  *)
(* fetch and message events follow, every store whose name starts with the *)
(* prefix is the current generation, and there is at most one of it.       *)
C12_GenerationInvariant ==
    phase = "activated" =>
        \A i \in 1..Len(caches) :
            StartsWith(caches[i].name, CachePrefix) =>
                /\ caches[i].name = CACHE_NAME
                /\ \A j \in 1..Len(caches) : caches[j].name = CACHE_NAME => j = i

C12_Witness ==
    /\ phase = "activated"
    /\ {OldGeneration, PrefixOnlyName} \subseteq pruned
    /\ cleared
    /\ Has(caches, CACHE_NAME)
    /\ Has(caches, UnrelatedName)

(* C13. Unrecognised control messages are ignored: a message without data  *)
(* or with an action other than clearImageCache and getCacheStats starts   *)
(* no handler, posts no reply, raises no error and leaves every store      *)
(* unchanged; replies and handlers only ever stem from recognised          *)
(* messages.                                                               *)
ClaimRecognised(m) == m.hasData /\ m.action \in {"clearImageCache", "getCacheStats"}

C13_UnrecognisedIgnored ==
    /\ [](Len(replies) + BagCardinality(msgs)
              = received["clearImageCache"] + received["getCacheStats"])
    /\ [][\A m \in Messages :
            (MessageEvent(m) /\ ~ClaimRecognised(m))
                => UNCHANGED <<caches, data, replies, msgs, received, tasks, out, unhandled,
                               written>>]_vars

C13_Witness ==
    /\ ignored >= 2
    /\ events = ignored
    /\ replies = <<>>
    /\ msgs = EmptyBag
    /\ unhandled = 0

C15_WriteFailureSwallowed ==
    [][\A t \in InFlight :
         (WriteOpenFail(t) \/ WritePutFail(t))
             => /\ unhandled' = unhandled
                /\ out' = out
                /\ tasks' = Remove(tasks, t)
                /\ UNCHANGED <<caches, written>>]_vars

(* C16. Lookup scope: a request is only answered as a cache hit when the   *)
(* current generation held an entry for its key at the lookup, and then    *)
(* with that entry; an entry held only by another store never produces a   *)
(* hit, so that a key whose entry was cleared goes to the network.         *)
C16_LookupScope ==
    out.outcome = "cached-hit" =>
        /\ out.stored # NoResponse
        /\ out.response = out.stored

(* C17. Activation ordering: install calls skipWaiting; clients.claim() is *)
(* called only when every deletion of the activation has completed, so     *)
(* that none of the names passed to caches.delete is left; and the         *)
(* activation is only complete when the pruning is over and the claim has  *)
(* been made.                                                              *)
C17_ActivationOrdering ==
    /\ phase # "parsed" => skipWaiting
    /\ claimed => /\ toDelete = {}
                  /\ \A n \in pruned : ~Has(caches, n)
                  /\ phase \in {"claiming", "activated"}
    /\ phase = "activated" => claimed /\ toDelete = {}
    /\ phase \in {"parsed", "installed", "keys", "pruning"} => ~claimed

C17_Witness ==
    /\ phase = "claiming"
    /\ claimed
    /\ skipWaiting
    /\ pruned = {OldGeneration, PrefixOnlyName}
    /\ Has(caches, CACHE_NAME)

(* C18. Per-request termination: whenever the lookup, and after a miss the *)
(* network fetch, of an intercepted request has settled, the request has   *)
(* reached one of the outcomes cached-hit, network-fill,                   *)
(* network-pass-through and fetch-error and has received a response; the   *)
(* only requests still unanswered are those whose own lookup or fetch is   *)
(* pending, never one that waits for a write or for another request.       *)
TerminalOutcomes == {"cached-hit", "network-fill", "network-pass-through", "fetch-error"}

C18_PerRequestTermination ==
    /\ out # NoOut =>
           /\ out.outcome \in TerminalOutcomes
           /\ out.settled = "fulfilled"
           /\ out.response # NoResponse
    /\ \A t \in InFlight : t.pc \in {"open", "put"} => t.response # NoResponse

(* C19. getCacheStats is read-only on entries: no step of its handling     *)
(* (the message event, caches.open resolving, cache.keys resolving) adds,  *)
(* removes or overwrites an entry of any store or removes a store; the     *)
(* only change to the storage is that the current generation is created,   *)
(* empty, when it did not exist.                                           *)
StoresKept ==
    /\ \A i \in 1..Len(caches) :
           /\ caches'[i] = caches[i]
           /\ data'[caches[i].cid] = data[caches[i].cid]
    /\ written' = written

C19_StatsReadOnly ==
    /\ [][\A m \in Messages :
            (MessageEvent(m) /\ m.hasData /\ m.action = "getCacheStats")
                => UNCHANGED <<caches, data, written>>]_vars
    /\ [][\A h \in BagToSet(msgs) :
            /\ StatsOpen(h) =>
                   /\ StoresKept
                   /\ IF Has(caches, CACHE_NAME)
                      THEN caches' = caches
                      ELSE /\ Len(caches') = Len(caches) + 1
                           /\ caches'[Len(caches')].name = CACHE_NAME
                           /\ data'[caches'[Len(caches')].cid] = <<>>
            /\ StatsKeys(h) => StoresKept /\ caches' = caches]_vars

C19_Witness ==
    /\ events = 1
    /\ Posted("cacheStats") = 1
    /\ replies[1].count = 0
    /\ Len(caches) = 1
    /\ Has(caches, CACHE_NAME)
    /\ CurrentEntries = <<>>

====
